---- MODULE Spec2Model ----
(***************************************************************************)
(* The from-scratch tensordot routine of the tensor notebook               *)
(* (src/unnamed/part_000, lines 451-452 and 510-540), as a state machine   *)
(* that runs one call tensordot(T1, T2, axes) statement by statement.      *)
(*                                                                         *)
(* A tensor is a record [shape, data]: shape is the tuple of axis sizes,   *)
(* data the elements in row-major (C) order, which is the layout of the    *)
(* arrays np.arange(..).reshape(..), np.ones(..) and np.zeros(..) build.   *)
(* Axis numbers and coordinates are 0-based as in the source; TLA+         *)
(* sequences are 1-based, so axis d of a shape s is s[d + 1].              *)
(***************************************************************************)
EXTENDS Integers, Sequences, FiniteSets, TLC

\* ------------------------------------------------------------- bounds ----
\* largest rank of an input tensor
MaxRank == 2
\* largest size of one axis (sizes range over 0..MaxDim)
MaxDim == 2
\* largest number of elements of one input tensor
MaxElems == 4
\* number of workers that share out the iterations of the loop
NWorkers == 2
\* largest number of output entries of a call whose loop is shared out
MaxEntries == 4

\* ------------------------------------------------- sequence helpers ----
RECURSIVE SumSeq(_)
SumSeq(s) == IF s = <<>> THEN 0 ELSE Head(s) + SumSeq(Tail(s))

RECURSIVE Prod(_)
Prod(s) == IF s = <<>> THEN 1 ELSE Head(s) * Prod(Tail(s))

\* x in L, for a Python list L
\* (variant: only the first entry of the list is looked at)
InHead(x, L) == Len(L) >= 1 /\ L[1] = x
In(x, L) == \E i \in 1..Len(L) : L[i] = x

\* ------------------------------------------------- dense arrays --------
\* itertools.product(*[range(n) for n in shape]): every coordinate tuple of
\* the shape, the last coordinate varying fastest.  One empty tuple for the
\* empty shape, no tuple at all when some size is 0.
RECURSIVE product(_)
product(shape) ==
    IF shape = <<>> THEN << <<>> >>
    ELSE LET rest == product(Tail(shape))
             n    == Len(rest)
         IN  [j \in 1..(Head(shape) * n) |->
                 << (j - 1) \div n >> \o rest[((j - 1) % n) + 1]]

\* position (0-based) of coordinate tuple c in the row-major data of shape
RECURSIVE Offset(_, _)
Offset(shape, c) ==
    IF shape = <<>> THEN 0
    ELSE Head(c) * Prod(Tail(shape)) + Offset(Tail(shape), Tail(c))

\* T[c] for a full tuple of integer coordinates
At(T, c) == T.data[Offset(T.shape, c) + 1]

\* slice(None, None, None); the other entries of an index list are
\* coordinates, which are never negative
SLICE == -1

\* the positions of a [slice | int] index list that hold a slice
SlicePos(index) == {p \in 1..Len(index) : index[p] = SLICE}

\* the sub-sequence of s at the positions in P, in ascending position order
RECURSIVE Pick(_, _, _)
Pick(s, P, p) ==
    IF p > Len(s) THEN <<>>
    ELSE (IF p \in P THEN <<s[p]>> ELSE <<>>) \o Pick(s, P, p + 1)

\* the full coordinate tuple that index denotes when its slices, in ascending
\* position order, take the coordinates c
RECURSIVE Coord(_, _, _)
Coord(index, c, p) ==
    IF p > Len(index) THEN <<>>
    ELSE IF index[p] = SLICE
         THEN <<Head(c)>> \o Coord(index, Tail(c), p + 1)
         ELSE <<index[p]>> \o Coord(index, c, p + 1)

\* T[tuple(index)] (numpy basic indexing): the integer positions are fixed
\* and dropped, the sliced axes are kept in their order within T
GetItem(T, index) ==
    LET sub  == Pick(T.shape, SlicePos(index), 1)
        cs   == product(sub)
    IN  [shape |-> sub,
         data  |-> [j \in 1..Len(cs) |-> At(T, Coord(index, cs[j], 1))]]

\* np.ravel(T): the elements in row-major order
ravel(T) == T.data

\* np.dot of two 1-D arrays: defined when the lengths agree
DotDefined(u, v) == Len(u) = Len(v)
\* (variant: the terms are added instead of multiplied)
dotOfSums(u, v) == SumSeq([j \in 1..Len(u) |-> u[j] + v[j]])
\* (variant: the last term is left out)
dotShort(u, v) == SumSeq([j \in 1..(Len(u) - 1) |-> u[j] * v[j]])
dot(u, v) == SumSeq([j \in 1..Len(u) |-> u[j] * v[j]])

\* (variant: the slices are compared as they are, without np.ravel)
vecdotDefinedUnravelled(A, B) == A.shape = B.shape
\* (variant: the first operand is used twice)
vecdotSelf(A, B) == dot(ravel(A), ravel(A))

\* def vecdot(T1, T2): return np.dot(np.ravel(T1), np.ravel(T2))
vecdotDefined(A, B) == DotDefined(ravel(A), ravel(B))
vecdot(A, B) == dot(ravel(A), ravel(B))

\* np.zeros(shape)
zeros(shape) == [shape |-> shape, data |-> [j \in 1..Prod(shape) |-> 0]]

\* (variant: T[:] = v, every entry is overwritten)
SetItemAll(T, c, v) == [T EXCEPT !.data = [j \in 1..Len(T.data) |-> v]]

\* T[c] = v
SetItem(T, c, v) ==
    [T EXCEPT !.data = [T.data EXCEPT ![Offset(T.shape, c) + 1] = v]]

\* ------------------------------------------------- the call's inputs ---
\* the shapes of the input tensors
Shapes ==
    {s \in UNION {[1..r -> 0..MaxDim] : r \in 0..MaxRank} : Prod(s) <= MaxElems}

\* the element values: np.arange(n) (0, 1, 2, ...) and np.ones(n), the two
\* constructors of the notebook's example cells, as <<first, step>>
arange == <<0, 1>>
ones == <<1, 0>>
Fills == {arange, ones}

Tensor(shape, fill) ==
    [shape |-> shape,
     data  |-> [j \in 1..Prod(shape) |-> fill[1] + fill[2] * (j - 1)]]

Tensors == {Tensor(s, f) : s \in Shapes, f \in Fills}

ndim(T) == Len(T.shape)

\* the axes argument: an integer k, or a tuple of lists of integers
IntAxes(k) == [kind |-> "int", k |-> k, elems |-> <<>>]
TupleAxes(elems) == [kind |-> "tuple", k |-> 0, elems |-> elems]

\* the lists of at most MaxRank distinct entries drawn from vals
DistinctLists(vals) ==
    {L \in UNION {[1..k -> vals] : k \in 0..MaxRank} :
        \A i, j \in 1..Len(L) : L[i] = L[j] => i = j}

\* the lists of at most MaxRank entries, out-of-range and repeated ones too
AnyLists == UNION {[1..k -> (-1)..MaxRank] : k \in 0..MaxRank}

\* what the signature documents: L1 a subset of range(D1), L2 a subset of
\* range(D2), of the same size k, the paired axes of the same size
InRange(L, T) == \A i \in 1..Len(L) : L[i] \in 0..(ndim(T) - 1)
Distinct(L) == \A i, j \in 1..Len(L) : L[i] = L[j] => i = j
SizesMatch(A, B, LA, LB) ==
    \A i \in 1..Len(LA) : i <= Len(LB) => A.shape[LA[i] + 1] = B.shape[LB[i] + 1]
ValidCall(A, B, LA, LB) ==
    /\ Len(LA) = Len(LB)
    /\ InRange(LA, A) /\ InRange(LB, B)
    /\ Distinct(LA) /\ Distinct(LB)
    /\ SizesMatch(A, B, LA, LB)

\* --------------------------------------------------------- state -------
VARIABLES
    T1, T2, axes,            \* the arguments
    pc,                      \* the statement about to run
    L1, L2,                  \* L1, L2 = axes
    T1_rdim, T2_rdim,        \* static dimensions
    T1_rshape, T2_rshape,    \* their sizes
    T, allocated,            \* the output tensor; whether np.zeros has run
    T1_index, T2_index,      \* the index buffers
    n,                       \* number of (t1, t2) iterations started
    t1, t2,                  \* the loop variables
    err,                     \* the exception that ended the call, or "none"
    workers                  \* the loop's iterations when they are shared out:
                             \* per worker its pending iterations, its loop
                             \* variables and its index buffers

vars == <<T1, T2, axes, pc, L1, L2, T1_rdim, T2_rdim, T1_rshape, T2_rshape,
          T, allocated, T1_index, T2_index, n, t1, t2, err, workers>>

args == <<T1, T2, axes>>

NoTensor == [shape |-> <<>>, data |-> <<>>]

Locals0 ==
    /\ pc = "check"
    /\ L1 = <<>> /\ L2 = <<>>
    /\ T1_rdim = <<>> /\ T2_rdim = <<>>
    /\ T1_rshape = <<>> /\ T2_rshape = <<>>
    /\ T = NoTensor /\ allocated = FALSE
    /\ T1_index = <<>> /\ T2_index = <<>>
    /\ n = 0 /\ t1 = <<>> /\ t2 = <<>>
    /\ err = "none"
    /\ workers = <<>>

\* calls inside the documented domain
InitValid ==
    /\ T1 \in Tensors /\ T2 \in Tensors
    /\ \E LA \in DistinctLists(0..(ndim(T1) - 1)),
          LB \in DistinctLists(0..(ndim(T2) - 1)) :
          /\ ValidCall(T1, T2, LA, LB)
          /\ axes = TupleAxes(<<LA, LB>>)
    /\ Locals0

\* calls with a pair of arbitrary lists: unequal lengths, unequal sizes,
\* out-of-range, negative and repeated axes
InitAny ==
    /\ \E s1 \in Shapes, s2 \in Shapes :
          /\ T1 = Tensor(s1, arange)
          /\ T2 = Tensor(s2, arange)
    /\ \E LA \in AnyLists, LB \in AnyLists : axes = TupleAxes(<<LA, LB>>)
    /\ Locals0

\* calls whose axes argument is not a pair: an integer k, or a tuple of
\* zero, one or three lists (axes=() is the default)
InitArg ==
    /\ \E s1 \in Shapes, s2 \in Shapes :
          /\ T1 = Tensor(s1, arange)
          /\ T2 = Tensor(s2, arange)
    /\ \/ \E k \in 0..MaxRank : axes = IntAxes(k)
       \/ \E LA \in DistinctLists(0..(ndim(T1) - 1)) :
             axes \in {TupleAxes(<<>>), TupleAxes(<<LA>>), TupleAxes(<<LA, LA, LA>>)}
    /\ Locals0

\* the calls of the notebook's example cells
Examples ==
    { <<Tensor(<<2, 3, 4>>, arange), Tensor(<<3>>, ones), <<1>>, <<0>>>>,
      <<Tensor(<<4>>, ones), Tensor(<<4>>, arange), <<0>>, <<0>>>>,
      <<Tensor(<<4>>, ones), Tensor(<<4>>, arange), <<>>, <<>>>>,
      <<Tensor(<<3, 3>>, arange), Tensor(<<3>>, ones), <<0>>, <<0>>>>,
      <<Tensor(<<3, 3>>, arange), Tensor(<<3>>, ones), <<1>>, <<0>>>>,
      <<Tensor(<<2, 3>>, arange), Tensor(<<2, 3>>, arange), <<0, 1>>, <<0, 1>>>>,
      <<Tensor(<<3, 2, 4>>, arange), Tensor(<<2, 4, 2>>, ones), <<1, 2>>, <<2, 1>>>>,
      <<Tensor(<<3, 2, 4>>, arange), Tensor(<<2, 4, 2>>, ones), <<1, 2>>, <<0, 1>>>> }

InitExample ==
    /\ \E e \in Examples :
          /\ T1 = e[1] /\ T2 = e[2]
          /\ axes = TupleAxes(<<e[3], e[4]>>)
    /\ Locals0

\* the call of the tensor-tensor cell on the T1 of the first cell,
\* np.arange(24).reshape(2,3,4)
InitScenario ==
    /\ T1 = Tensor(<<2, 3, 4>>, arange)
    /\ T2 = Tensor(<<2, 4, 2>>, ones)
    /\ axes = TupleAxes(<< <<1, 2>>, <<2, 1>> >>)
    /\ Locals0

Init == InitValid \/ InitExample \/ InitAny \/ InitArg

\* ------------------------------------------------------- statements ----
\* (variant: "in" for "not in", the static dimensions are the listed ones)
RECURSIVE rdimListed(_, _, _)
rdimListed(A, L, d) ==
    IF d >= ndim(A) THEN <<>>
    ELSE (IF In(d, L) THEN <<d>> ELSE <<>>) \o rdimListed(A, L, d + 1)

\* [d for d in range(T.ndim) if d not in L], from dimension d on
RECURSIVE rdim(_, _, _)
rdim(A, L, d) ==
    IF d >= ndim(A) THEN <<>>
    ELSE (IF In(d, L) THEN <<>> ELSE <<d>>) \o rdim(A, L, d + 1)

\* [T.shape[d] for d in dims]
rshape(A, dims) == [i \in 1..Len(dims) |-> A.shape[dims[i] + 1]]

\* (variant: a coordinate 0 is not written)
RECURSIVE AssignIndexNonzero(_, _, _, _)
AssignIndexNonzero(index, dims, t, i) ==
    IF i >= Len(dims) THEN index
    ELSE AssignIndexNonzero(IF t[i + 1] = 0 THEN index
                            ELSE [index EXCEPT ![dims[i + 1] + 1] = t[i + 1]],
                            dims, t, i + 1)

\* for i in range(len(dims)): index[dims[i]] = t[i], from i on (0-based)
RECURSIVE AssignIndex(_, _, _, _)
AssignIndex(index, dims, t, i) ==
    IF i >= Len(dims) THEN index
    ELSE AssignIndex([index EXCEPT ![dims[i + 1] + 1] = t[i + 1]], dims, t, i + 1)

\* the (t1, t2) pairs of the two nested for loops, in the order they run
Coords1 == product(T1_rshape)
Coords2 == product(T2_rshape)
\* (variant: the last iteration is left out)
IterationsShort == Len(Coords1) * Len(Coords2) - 1
Iterations == Len(Coords1) * Len(Coords2)

\* (variant: an integer is taken for a sequence of no elements)
LenDefinedAlways(a) == a.kind \in {"tuple", "int"}

\* len(axes) is defined for a tuple; for an integer it raises TypeError
LenDefined(a) == a.kind = "tuple"

\* if(len(axes) != 2): raise ValueError("...".format(len(L1), len(L2)))
\* the arguments of format read the locals L1 and L2, which are assigned
\* only on the next line, so the raise statement itself ends in
\* UnboundLocalError
CheckAxes ==
    /\ pc = "check"
    /\ IF ~LenDefined(axes)
       THEN pc' = "error" /\ err' = "TypeError"
       ELSE IF Len(axes.elems) # 2
            THEN pc' = "error" /\ err' = "UnboundLocalError"
            ELSE pc' = "unpack" /\ err' = err
    /\ UNCHANGED <<workers, args, L1, L2, T1_rdim, T2_rdim, T1_rshape, T2_rshape,
                   T, allocated, T1_index, T2_index, n, t1, t2>>

\* L1, L2 = axes
Unpack ==
    /\ pc = "unpack"
    /\ L1' = axes.elems[1]
    /\ L2' = axes.elems[2]
    /\ pc' = "rdim"
    /\ UNCHANGED <<workers, args, T1_rdim, T2_rdim, T1_rshape, T2_rshape,
                   T, allocated, T1_index, T2_index, n, t1, t2, err>>

\* T1_rdim = [d for d in range(T1.ndim) if d not in L1], and T2_rdim
StaticDims ==
    /\ pc = "rdim"
    /\ T1_rdim' = rdim(T1, L1, 0)
    /\ T2_rdim' = rdim(T2, L2, 0)
    /\ pc' = "rshape"
    /\ UNCHANGED <<workers, args, L1, L2, T1_rshape, T2_rshape,
                   T, allocated, T1_index, T2_index, n, t1, t2, err>>

\* T1_rshape = [T1.shape[d] for d in T1_rdim], and T2_rshape
StaticShapes ==
    /\ pc = "rshape"
    /\ T1_rshape' = rshape(T1, T1_rdim)
    /\ T2_rshape' = rshape(T2, T2_rdim)
    /\ pc' = "alloc"
    /\ UNCHANGED <<workers, args, L1, L2, T1_rdim, T2_rdim,
                   T, allocated, T1_index, T2_index, n, t1, t2, err>>

\* T = np.zeros(tuple(T1.shape[d] for d in T1_rdim)
\*              + tuple(T2.shape[d] for d in T2_rdim))
OutShape(A, B, dimsA, dimsB) == rshape(A, dimsA) \o rshape(B, dimsB)

Allocate ==
    /\ pc = "alloc"
    /\ T' = zeros(OutShape(T1, T2, T1_rdim, T2_rdim))
    /\ allocated' = TRUE
    /\ pc' = "index"
    /\ UNCHANGED <<workers, args, L1, L2, T1_rdim, T2_rdim, T1_rshape, T2_rshape,
                   T1_index, T2_index, n, t1, t2, err>>

\* T1_index = [slice(None,None,None)]*T1.ndim, and T2_index
InitIndex ==
    /\ pc = "index"
    /\ T1_index' = [p \in 1..ndim(T1) |-> SLICE]
    /\ T2_index' = [p \in 1..ndim(T2) |-> SLICE]
    /\ pc' = "loop"
    /\ UNCHANGED <<workers, args, L1, L2, T1_rdim, T2_rdim, T1_rshape, T2_rshape,
                   T, allocated, n, t1, t2, err>>

\* the next (t1, t2) of the nested for loops, and the two inner loops that
\* write it into the index buffers
SetIndices ==
    /\ pc = "loop"
    /\ n < Iterations
    /\ LET c1 == Coords1[(n \div Len(Coords2)) + 1]
           c2 == Coords2[(n % Len(Coords2)) + 1]
       IN  /\ t1' = c1
           /\ t2' = c2
           /\ T1_index' = AssignIndex(T1_index, T1_rdim, c1, 0)
           /\ T2_index' = AssignIndex(T2_index, T2_rdim, c2, 0)
    /\ n' = n + 1
    /\ pc' = "store"
    /\ UNCHANGED <<workers, args, L1, L2, T1_rdim, T2_rdim, T1_rshape, T2_rshape,
                   T, allocated, err>>

\* (variant: the operand T1 is cleared once its slice has been used)
StoreClearing ==
    /\ pc = "store"
    /\ T1' = zeros(T1.shape)
    /\ T' = SetItem(T, t1 \o t2, 0)
    /\ pc' = "loop"
    /\ UNCHANGED <<workers, T2, axes, L1, L2, T1_rdim, T2_rdim, T1_rshape, T2_rshape,
                   allocated, T1_index, T2_index, n, t1, t2, err>>

\* T[t1+t2] = vecdot(T1[tuple(T1_index)], T2[tuple(T2_index)])
\* np.dot raises ValueError when the two ravelled slices differ in length
Store ==
    /\ pc = "store"
    /\ LET A == GetItem(T1, T1_index)
           B == GetItem(T2, T2_index)
       IN  IF vecdotDefined(A, B)
           THEN /\ T' = SetItem(T, t1 \o t2, vecdot(A, B))
                /\ pc' = "loop"
                /\ err' = err
           ELSE /\ T' = T
                /\ pc' = "error"
                /\ err' = "ValueError"
    /\ UNCHANGED <<workers, args, L1, L2, T1_rdim, T2_rdim, T1_rshape, T2_rshape,
                   allocated, T1_index, T2_index, n, t1, t2>>

\* return T
Return ==
    /\ pc = "loop"
    /\ n >= Iterations
    /\ pc' = "done"
    /\ UNCHANGED <<workers, args, L1, L2, T1_rdim, T2_rdim, T1_rshape, T2_rshape,
                   T, allocated, T1_index, T2_index, n, t1, t2, err>>

Next ==
    \/ CheckAxes
    \/ Unpack
    \/ StaticDims
    \/ StaticShapes
    \/ Allocate
    \/ InitIndex
    \/ SetIndices
    \/ Store
    \/ Return

Spec == Init /\ [][Next]_vars

\* the calls inside the documented domain only
SpecValid == (InitValid \/ InitExample) /\ [][Next]_vars

\* the same, each statement run once the one before it has ended
SpecValidFair == SpecValid /\ WF_vars(Next)

\* the same, and the calls whose axes argument is not a pair
SpecArg == (InitValid \/ InitExample \/ InitArg) /\ [][Next]_vars

\* the calls inside the documented domain, each the inner call B.C of a
\* chain A.(B.C)
SpecChain == InitValid /\ [][Next]_vars

\* the same, and the call on the (2,3,4) operand
SpecCalls == (InitValid \/ InitExample \/ InitArg \/ InitScenario) /\ [][Next]_vars

\* the matrices among the tensors
Matrices == {M \in Tensors : ndim(M) = 2}

\* np.multiply.outer(A, C): shape A.shape + C.shape, entries A[a...] * C[c...]
outer(A, C) ==
    [shape |-> A.shape \o C.shape,
     data  |-> [p \in 1..(Len(A.data) * Len(C.data)) |->
                   A.data[((p - 1) \div Len(C.data)) + 1]
                     * C.data[((p - 1) % Len(C.data)) + 1]]]

\* A.dot(B) for matrices A (n,p) and B (p,q)
matdot(A, B) ==
    [shape |-> <<A.shape[1], B.shape[2]>>,
     data  |-> [e \in 1..(A.shape[1] * B.shape[2]) |->
                   SumSeq([j \in 1..A.shape[2] |->
                              A.data[((e - 1) \div B.shape[2]) * A.shape[2] + j]
                                * B.data[(j - 1) * B.shape[2]
                                         + ((e - 1) % B.shape[2]) + 1]])]]

\* the call of the rearrangement cell: A (n,p), B (p,q), C (q,m), the outer
\* product of A and C contracted with B over ([1,2],[0,1])
InitABC ==
    /\ \E A \in Matrices, B \in Matrices, C \in Matrices :
          /\ A.shape[2] = B.shape[1]
          /\ B.shape[2] = C.shape[1]
          /\ T1 = outer(A, C)
          /\ T2 = B
    /\ axes = TupleAxes(<< <<1, 2>>, <<0, 1>> >>)
    /\ Locals0

SpecABC == InitABC /\ [][Next]_vars

\* ------------------------------------- the loop shared out to workers ---
\* The (t1, t2) iterations of lines 531-539 are numbered 0, 1, ... in the
\* order the nested for loops run them.  Worker w takes the iterations k
\* with k % NWorkers = w - 1, runs the loop body for them in any order, each
\* step interleaved with the steps of the other workers, and keeps its own
\* loop variables and index buffers, which it reuses from one iteration to
\* the next as the loop does.  T1, T2 and T are shared.

\* the calls inside the documented domain with at most MaxEntries entries
InitShared ==
    /\ InitValid
    /\ Prod(rshape(T1, rdim(T1, axes.elems[1], 0)))
         * Prod(rshape(T2, rdim(T2, axes.elems[2], 0))) <= MaxEntries

\* the workers start, each with a copy of the index buffers of lines 528-529
Fork ==
    /\ pc = "loop"
    /\ workers = <<>>
    /\ workers' = [w \in 1..NWorkers |->
                     [pc    |-> "loop",
                      todo  |-> {k \in 0..(Iterations - 1) : k % NWorkers = w - 1},
                      t1    |-> <<>>, t2 |-> <<>>,
                      T1_index |-> T1_index, T2_index |-> T2_index]]
    /\ pc' = "fork"
    /\ UNCHANGED <<args, L1, L2, T1_rdim, T2_rdim, T1_rshape, T2_rshape,
                   T, allocated, T1_index, T2_index, n, t1, t2, err>>

\* worker w takes one of its iterations and writes its (t1, t2) into its
\* index buffers (lines 535-538)
WorkerSetIndices(w) ==
    /\ pc = "fork"
    /\ workers[w].pc = "loop"
    /\ \E k \in workers[w].todo :
          LET c1 == Coords1[(k \div Len(Coords2)) + 1]
              c2 == Coords2[(k % Len(Coords2)) + 1]
          IN  workers' = [workers EXCEPT ![w] =
                             [pc    |-> "store",
                              todo  |-> @.todo \ {k},
                              t1    |-> c1, t2 |-> c2,
                              T1_index |-> AssignIndex(@.T1_index, T1_rdim, c1, 0),
                              T2_index |-> AssignIndex(@.T2_index, T2_rdim, c2, 0)]]
    /\ UNCHANGED <<args, pc, L1, L2, T1_rdim, T2_rdim, T1_rshape, T2_rshape,
                   T, allocated, T1_index, T2_index, n, t1, t2, err>>

\* worker w runs line 539 with its own t1, t2 and index buffers
WorkerStore(w) ==
    /\ pc = "fork"
    /\ workers[w].pc = "store"
    /\ LET me == workers[w]
           A  == GetItem(T1, me.T1_index)
           B  == GetItem(T2, me.T2_index)
       IN  IF vecdotDefined(A, B)
           THEN /\ T' = SetItem(T, me.t1 \o me.t2, vecdot(A, B))
                /\ pc' = pc
                /\ err' = err
           ELSE /\ T' = T
                /\ pc' = "error"
                /\ err' = "ValueError"
    /\ workers' = [workers EXCEPT ![w].pc = "loop"]
    /\ UNCHANGED <<args, L1, L2, T1_rdim, T2_rdim, T1_rshape, T2_rshape,
                   allocated, T1_index, T2_index, n, t1, t2>>

\* the barrier: every worker has run all its iterations; return T
Join ==
    /\ pc = "fork"
    /\ \A w \in 1..NWorkers : workers[w].pc = "loop" /\ workers[w].todo = {}
    /\ pc' = "done"
    /\ UNCHANGED <<workers, args, L1, L2, T1_rdim, T2_rdim, T1_rshape, T2_rshape,
                   T, allocated, T1_index, T2_index, n, t1, t2, err>>

NextShared ==
    \/ CheckAxes
    \/ Unpack
    \/ StaticDims
    \/ StaticShapes
    \/ Allocate
    \/ InitIndex
    \/ Fork
    \/ \E w \in 1..NWorkers : WorkerSetIndices(w)
    \/ \E w \in 1..NWorkers : WorkerStore(w)
    \/ Join

SpecShared == InitShared /\ [][NextShared]_vars

\* ------------------------------------------- the call as a function ----
\* [slice(None,None,None)]*A.ndim
AllSlices(A) == [p \in 1..ndim(A) |-> SLICE]

\* the nested for loops from iteration k on (0-based), st holding the output
\* tensor and the two index buffers as the iterations before k left them;
\* ok is FALSE once np.dot has raised
RECURSIVE loop(_, _, _, _, _, _)
loop(A, B, da, db, st, k) ==
    LET c1 == product(rshape(A, da))
        c2 == product(rshape(B, db))
    IN  IF k >= Len(c1) * Len(c2) THEN st
        ELSE LET a  == c1[(k \div Len(c2)) + 1]
                 b  == c2[(k % Len(c2)) + 1]
                 i1 == AssignIndex(st.i1, da, a, 0)
                 i2 == AssignIndex(st.i2, db, b, 0)
                 X  == GetItem(A, i1)
                 Y  == GetItem(B, i2)
             IN  IF vecdotDefined(X, Y)
                 THEN loop(A, B, da, db,
                           [T |-> SetItem(st.T, a \o b, vecdot(X, Y)),
                            i1 |-> i1, i2 |-> i2, ok |-> TRUE], k + 1)
                 ELSE [st EXCEPT !.ok = FALSE]

\* tensordot(A, B, (LA, LB)): [ok |-> the call returned, T |-> what it returned]
tensordot(A, B, LA, LB) ==
    LET da == rdim(A, LA, 0)
        db == rdim(B, LB, 0)
    IN  loop(A, B, da, db,
             [T |-> zeros(OutShape(A, B, da, db)),
              i1 |-> AllSlices(A), i2 |-> AllSlices(B), ok |-> TRUE], 0)

\* --------------------------------------------------- the contraction ---
\* The tensor the contraction of A's axes LA against B's axes LB denotes:
\* the i-th contracted coordinate is shared by A's axis LA[i] and B's axis
\* LB[i].

Terminal == pc \in {"done", "error"}

\* the axes argument is a pair of lists
IsPair == axes.kind = "tuple" /\ Len(axes.elems) = 2
ArgL1 == axes.elems[1]
ArgL2 == axes.elems[2]

\* the sizes of the axes of A that LA does not name, in ascending axis order
StaticSizes(A, LA) == Pick(A.shape, {p \in 1..ndim(A) : ~In(p - 1, LA)}, 1)

\* the sizes of the contracted axes, in pairing order
ContractedSizes(A, LA) == [i \in 1..Len(LA) |-> A.shape[LA[i] + 1]]

\* the coordinate tuple of A whose static axes take a and whose axis LA[i]
\* takes c[i]
PairedCoord(A, LA, a, c) ==
    [p \in 1..ndim(A) |->
        IF In(p - 1, LA)
        THEN c[CHOOSE i \in 1..Len(LA) : LA[i] = p - 1]
        ELSE a[Cardinality({e \in 0..(p - 2) : ~In(e, LA)}) + 1]]

PairedSum(A, B, LA, LB, a, b) ==
    LET cs == product(ContractedSizes(A, LA))
    IN  SumSeq([j \in 1..Len(cs) |->
                   At(A, PairedCoord(A, LA, a, cs[j]))
                   * At(B, PairedCoord(B, LB, b, cs[j]))])

PairedTensor(A, B, LA, LB) ==
    LET sa  == StaticSizes(A, LA)
        sb  == StaticSizes(B, LB)
        out == product(sa \o sb)
    IN  [shape |-> sa \o sb,
         data  |-> [j \in 1..Len(out) |->
                       PairedSum(A, B, LA, LB,
                                 SubSeq(out[j], 1, Len(sa)),
                                 SubSeq(out[j], Len(sa) + 1, Len(sa) + Len(sb)))]]

\* C1: for every valid pairing (L1, L2), also one whose lists are in
\* different relative order, the returned tensor holds at [a..., b...] the sum
\* over the contracted multi-indices c of
\* T1[static = a, axis L1[i] = c_i] * T2[static = b, axis L2[i] = c_i].
C1_PairedContraction ==
    (pc = "done" /\ IsPair /\ ValidCall(T1, T2, L1, L2))
        => T = PairedTensor(T1, T2, L1, L2)

\* C2: the output of a valid call with k contracted pairs has rank
\* (rank(T1) - k) + (rank(T2) - k), and its shape is the sizes of T1's
\* uncontracted axes in ascending axis order followed by those of T2,
\* whatever the order in which L1 and L2 list the contracted axes.
C2_OutputShape ==
    (allocated /\ IsPair /\ ValidCall(T1, T2, ArgL1, ArgL2))
        => /\ T.shape = StaticSizes(T1, ArgL1) \o StaticSizes(T2, ArgL2)
           /\ Len(T.shape) = (ndim(T1) - Len(ArgL1)) + (ndim(T2) - Len(ArgL2))

\* a call returned whose lists are in different relative order and whose
\* operands both keep a static axis
C2_Witness ==
    /\ pc = "done"
    /\ L1 = <<1, 2>> /\ L2 = <<2, 1>>
    /\ T1.shape = <<3, 2, 4>> /\ T2.shape = <<2, 4, 2>>
    /\ T.shape = <<3, 2>>

\* some declared pair of contracted axes differs in size
Mismatch(A, B, LA, LB) ==
    /\ Len(LA) = Len(LB)
    /\ InRange(LA, A) /\ InRange(LB, B)
    /\ Distinct(LA) /\ Distinct(LB)
    /\ \E i \in 1..Len(LA) : A.shape[LA[i] + 1] # B.shape[LB[i] + 1]

\* C3: whenever some declared contracted pair has unequal sizes, the call
\* ends in an error and returns no tensor, also when the products of the
\* contracted sizes agree and when the output would have no entries.
C3_MismatchRejected ==
    (Terminal /\ IsPair /\ Mismatch(T1, T2, ArgL1, ArgL2)) => pc = "error"

\* C4: when len(L1) # len(L2) the call ends in an error and returns no
\* tensor.
C4_UnequalLengthsRejected ==
    (Terminal /\ IsPair /\ Len(ArgL1) # Len(ArgL2)) => pc = "error"

\* C5: when L1 or L2 holds an index outside its tensor's axes (a negative one
\* too), the call ends in an error and returns no tensor: the index is never
\* silently ignored.
C5_OutOfRangeRejected ==
    (Terminal /\ IsPair /\ ~(InRange(ArgL1, T1) /\ InRange(ArgL2, T2)))
        => pc = "error"

\* C6: when an axis index occurs twice within L1 or within L2, the call ends
\* in an error and returns no tensor.
C6_DuplicateRejected ==
    (Terminal /\ IsPair /\ ~(Distinct(ArgL1) /\ Distinct(ArgL2)))
        => pc = "error"

\* the explicit pair of the last-k/first-k convention
LastAxes(A, k) == [i \in 1..k |-> ndim(A) - k + i - 1]
FirstAxes(k) == [i \in 1..k |-> i - 1]
MinRank == IF ndim(T1) <= ndim(T2) THEN ndim(T1) ELSE ndim(T2)

\* C7 as stated: for 0 <= k <= min(r1, r2), tensordot with axes = k returns
\* the tensor that the explicit pair ([r1-k..r1-1], [0..k-1]) returns.
C7_IntegerAxesEquivalent ==
    (Terminal /\ axes.kind = "int" /\ axes.k <= MinRank
       /\ SizesMatch(T1, T2, LastAxes(T1, axes.k), FirstAxes(axes.k)))
        => /\ pc = "done"
           /\ T = PairedTensor(T1, T2, LastAxes(T1, axes.k), FirstAxes(axes.k))

\* C7 as amended: tensordot accepts only the two-list form.  With an integer
\* axes = k the call ends in TypeError at len(axes), before anything is
\* computed or allocated; the last-k/first-k contraction is what the explicit
\* pair ([r1-k..r1-1], [0..k-1]) returns.
C7_IntegerAxesRejected ==
    /\ (axes.kind = "int" /\ pc # "check")
           => (pc = "error" /\ err = "TypeError" /\ ~allocated /\ T = NoTensor)
    /\ (pc = "done" /\ IsPair /\ ValidCall(T1, T2, L1, L2)
          /\ L1 = LastAxes(T1, Len(L1)) /\ L2 = FirstAxes(Len(L2)))
           => T = PairedTensor(T1, T2, L1, L2)

\* an integer call over operands whose last and first axes match has ended
C7_Witness ==
    /\ axes.kind = "int" /\ axes.k = 1
    /\ T1.shape = <<2, 2>> /\ T2.shape = <<2, 1>>
    /\ pc = "error"

\* C8: no call reaches the allocation of the output and afterwards ends in
\* an error.
C8_ErrorBeforeAllocation == pc = "error" => ~allocated

\* C9: tensordot(T1, T2, ([], [])) has shape shape(T1) + shape(T2) and holds
\* T1[i...] * T2[j...] at [i..., j...].
C9_OuterProduct ==
    (Terminal /\ IsPair /\ ArgL1 = <<>> /\ ArgL2 = <<>>)
        => /\ pc = "done"
           /\ T.shape = T1.shape \o T2.shape
           /\ Len(T.data) = Len(T1.data) * Len(T2.data)
           /\ \A i \in 1..Len(T1.data), j \in 1..Len(T2.data) :
                 T.data[(i - 1) * Len(T2.data) + j] = T1.data[i] * T2.data[j]

\* the outer product of two matrices of different content has been returned
C9_Witness ==
    /\ pc = "done" /\ IsPair /\ L1 = <<>> /\ L2 = <<>>
    /\ T1 = Tensor(<<2, 1>>, arange) /\ T2 = Tensor(<<1, 2>>, ones)
    /\ T = [shape |-> <<2, 1, 1, 2>>, data |-> <<0, 0, 1, 1>>]

\* C10: for operands of identical shape, L1 and L2 listing all axes in the
\* same order, the result has rank 0 and is the sum over all positions p of
\* T1[p] * T2[p]; tensordot(M, M, ([0,1],[0,1])) is the sum of squares of M.
C10_FullContraction ==
    (Terminal /\ IsPair /\ T1.shape = T2.shape /\ ArgL1 = ArgL2
       /\ Len(ArgL1) = ndim(T1) /\ InRange(ArgL1, T1) /\ Distinct(ArgL1))
        => /\ pc = "done"
           /\ T.shape = <<>>
           /\ T.data = <<SumSeq([p \in 1..Len(T1.data) |-> T1.data[p] * T2.data[p]])>>

\* the notebook's Frobenius cell: M = arange(6).reshape(2,3), result 55
C10_Witness ==
    /\ pc = "done"
    /\ T1 = Tensor(<<2, 3>>, arange) /\ T2 = T1
    /\ L1 = <<0, 1>> /\ L2 = <<0, 1>>
    /\ T = [shape |-> <<>>, data |-> <<55>>]

\* C11: for vectors v1, v2 of equal length n, tensordot(v1, v2, ([0],[0])) is
\* the rank-0 tensor v1[0]*v2[0] + ... + v1[n-1]*v2[n-1].
C11_VectorDot ==
    (pc = "done" /\ IsPair /\ ndim(T1) = 1 /\ ndim(T2) = 1
       /\ T1.shape = T2.shape /\ L1 = <<0>> /\ L2 = <<0>>)
        => /\ T.shape = <<>>
           /\ Len(T.data) = 1
           /\ T.data[1] = SumSeq([i \in 1..T1.shape[1] |-> T1.data[i] * T2.data[i]])

\* the notebook's cell: v1 = ones(4), v2 = arange(4), result 6
C11_Witness ==
    /\ pc = "done"
    /\ T1 = Tensor(<<4>>, ones) /\ T2 = Tensor(<<4>>, arange)
    /\ L1 = <<0>> /\ L2 = <<0>>
    /\ T = [shape |-> <<>>, data |-> <<6>>]

\* M[a, b] for a matrix M (0-based a, b)
Entry(M, a, b) == M.data[a * M.shape[2] + b + 1]

\* C12: for M1 of shape (n,k) and M2 of shape (k,m),
\* tensordot(M1, M2, ([1],[0])) has shape (n,m) and holds at [a,b] the sum
\* over c of M1[a,c] * M2[c,b].
C12_MatrixProduct ==
    (pc = "done" /\ IsPair /\ ndim(T1) = 2 /\ ndim(T2) = 2
       /\ T1.shape[2] = T2.shape[1] /\ L1 = <<1>> /\ L2 = <<0>>)
        => /\ T.shape = <<T1.shape[1], T2.shape[2]>>
           /\ Len(T.data) = T1.shape[1] * T2.shape[2]
           /\ \A a \in 0..(T1.shape[1] - 1), b \in 0..(T2.shape[2] - 1) :
                 Entry(T, a, b)
                   = SumSeq([c \in 1..T1.shape[2] |->
                                Entry(T1, a, c - 1) * Entry(T2, c - 1, b)])

\* the product of a (1,2) and a (2,2) matrix, two
\* matrices of different shapes, has been returned
C12_Witness ==
    /\ pc = "done"
    /\ T1 = Tensor(<<1, 2>>, arange) /\ T2 = Tensor(<<2, 2>>, arange)
    /\ L1 = <<1>> /\ L2 = <<0>>
    /\ T = [shape |-> <<1, 2>>, data |-> <<2, 3>>]

\* C13: for a matrix M of shape (n,m) and a vector v, tensordot(M, v,
\* ([1],[0])) with len(v) = m is M.v, and tensordot(M, v, ([0],[0])) with
\* len(v) = n is v.M; the operand order is the same in both.
C13_MatrixVector ==
    (pc = "done" /\ IsPair /\ ndim(T1) = 2 /\ ndim(T2) = 1 /\ L2 = <<0>>)
        => /\ (L1 = <<1>> /\ T2.shape[1] = T1.shape[2])
                => /\ T.shape = <<T1.shape[1]>>
                   /\ Len(T.data) = T1.shape[1]
                   /\ \A a \in 0..(T1.shape[1] - 1) :
                         T.data[a + 1]
                           = SumSeq([c \in 1..T1.shape[2] |->
                                        Entry(T1, a, c - 1) * T2.data[c]])
           /\ (L1 = <<0>> /\ T2.shape[1] = T1.shape[1])
                => /\ T.shape = <<T1.shape[2]>>
                   /\ Len(T.data) = T1.shape[2]
                   /\ \A a \in 0..(T1.shape[2] - 1) :
                         T.data[a + 1]
                           = SumSeq([c \in 1..T1.shape[1] |->
                                        T2.data[c] * Entry(T1, c - 1, a)])

\* the notebook's cell: M = arange(9).reshape(3,3), v = ones(3), over M's
\* axis 0: v.M = [9, 12, 15]
C13_Witness ==
    /\ pc = "done"
    /\ T1 = Tensor(<<3, 3>>, arange) /\ T2 = Tensor(<<3>>, ones)
    /\ L1 = <<0>> /\ L2 = <<0>>
    /\ T = [shape |-> <<3>>, data |-> <<9, 12, 15>>]

\* C14: swapping the operands together with their axis lists transposes the
\* result: tensordot(T1,T2,(L1,L2))[a..., b...] = tensordot(T2,T1,(L2,L1))[b..., a...]
\* for every valid call; for matrices, tensordot(M1,M2,([1],[0]))[a,b]
\* = tensordot(M2,M1,([0],[1]))[b,a].
C14_SwapTransposes ==
    (Terminal /\ IsPair /\ ValidCall(T1, T2, ArgL1, ArgL2))
        => LET swapped == tensordot(T2, T1, ArgL2, ArgL1)
               sa == StaticSizes(T1, ArgL1)
               sb == StaticSizes(T2, ArgL2)
               ca == product(sa)
               cb == product(sb)
           IN  /\ swapped.ok = (pc = "done")
               /\ pc = "done" =>
                    /\ T.shape = sa \o sb
                    /\ swapped.T.shape = sb \o sa
                    /\ \A i \in 1..Len(ca), j \in 1..Len(cb) :
                          At(T, ca[i] \o cb[j]) = At(swapped.T, cb[j] \o ca[i])

\* a matrix product that is not its own transpose has been returned
C14_Witness ==
    /\ pc = "done"
    /\ T1 = Tensor(<<2, 2>>, arange) /\ T2 = Tensor(<<2, 1>>, arange)
    /\ L1 = <<1>> /\ L2 = <<0>>
    /\ T = [shape |-> <<2, 1>>, data |-> <<1, 3>>]

\* the 3-by-2 tensor [[28,28],[92,92],[156,156]]
Expected15 == [shape |-> <<3, 2>>, data |-> <<28, 28, 92, 92, 156, 156>>]

\* C15 as stated: with T1 = arange(24).reshape(2,3,4) and T2 = ones((2,4,2)),
\* tensordot(T1, T2, ([1,2],[2,1])) returns [[28,28],[92,92],[156,156]].
C15_Scenario234 ==
    (Terminal /\ IsPair /\ ArgL1 = <<1, 2>> /\ ArgL2 = <<2, 1>>
       /\ T1 = Tensor(<<2, 3, 4>>, arange) /\ T2 = Tensor(<<2, 4, 2>>, ones))
        => (pc = "done" /\ T = Expected15)

\* C15 as amended: with T1 = arange(24).reshape(3,2,4) and T2 = ones((2,4,2)),
\* tensordot(T1, T2, ([1,2],[2,1])) returns [[28,28],[92,92],[156,156]].
C15_Scenario324 ==
    (Terminal /\ IsPair /\ ArgL1 = <<1, 2>> /\ ArgL2 = <<2, 1>>
       /\ T1 = Tensor(<<3, 2, 4>>, arange) /\ T2 = Tensor(<<2, 4, 2>>, ones))
        => (pc = "done" /\ T = Expected15)

\* the call of the tensor-tensor cell has returned
C15_Witness ==
    /\ pc = "done" /\ n = 6
    /\ ArgL1 = <<1, 2>> /\ ArgL2 = <<2, 1>>
    /\ T1 = Tensor(<<3, 2, 4>>, arange) /\ T2 = Tensor(<<2, 4, 2>>, ones)
    /\ T = Expected15

\* C16: every call that satisfies the preconditions (equal-length lists of
\* distinct in-range axes with pairwise matching sizes, operands of any rank
\* and any axis sizes) returns an output tensor: it never ends in an error.
C16_ValidCallsReturn ==
    (IsPair /\ ValidCall(T1, T2, ArgL1, ArgL2))
        => (pc # "error" /\ err = "none")

\* a call over two rank-0 operands, and one whose lists pair the axes
\* crosswise, have returned
C16_Witness ==
    /\ pc = "done" /\ err = "none"
    /\ \/ T1.shape = <<>> /\ T2.shape = <<>> /\ T.data = <<1>>
       \/ /\ T1 = Tensor(<<1, 2>>, arange) /\ T2 = Tensor(<<2, 1>>, arange)
          /\ L1 = <<0, 1>> /\ L2 = <<1, 0>>

\* C17: in every execution, returning or raising, no step changes the
\* contents or shape of T1 or T2 or the axis lists (the argument axes and the
\* locals L1, L2 unpacked from it), and the tensor returned is the object
\* that np.zeros allocated within the call, never an operand.
C17_InputsUntouched ==
    [][/\ T1' = T1 /\ T2' = T2 /\ axes' = axes
       /\ (pc \notin {"check", "unpack"} => (L1' = L1 /\ L2' = L2))
       /\ ((pc = "unpack" /\ pc' # "error") => (L1' = ArgL1 /\ L2' = ArgL2))
       /\ (pc' = "done" => (allocated' /\ T' = T /\ T' # NoTensor))]_vars

\* a call has raised inside the loop, after its output was allocated
C17_Witness ==
    /\ pc = "error" /\ err = "ValueError" /\ allocated /\ n = 1
    /\ T1 = Tensor(<<2, 3, 4>>, arange) /\ T2 = Tensor(<<2, 4, 2>>, ones)
    /\ L1 = <<1, 2>> /\ L2 = <<2, 1>>

\* the call follows the default convention: the last k axes of T1 against
\* the first k axes of T2, k = min(rank(T1), rank(T2))
DefaultConvention ==
    IsPair /\ ArgL1 = LastAxes(T1, MinRank) /\ ArgL2 = FirstAxes(MinRank)
\* the call with the operands exchanged, under the same convention
Exchanged == tensordot(T2, T1, LastAxes(T2, MinRank), FirstAxes(MinRank))

StaticPos(b, LB) == Cardinality({d \in 0..(b - 1) : ~In(d, LB)})
\* the axes L of B as axes of a result in which B's static axes come after
\* lead other axes
Adjusted(L, LB, lead) == [i \in 1..Len(L) |-> lead + StaticPos(L[i], LB)]

\* C19: with B = T1 and C = T2 contracted over (L1, L2), and any A contracted
\* against other axes LB of B over (LA, LB): tensordot(A, tensordot(B, C))
\* with B's axes LB renumbered within B.C equals
\* tensordot(tensordot(A, B), C) with B's axes L1 renumbered within A.B.
C19_Associative ==
    (pc = "done" /\ IsPair /\ ValidCall(T1, T2, L1, L2))
        => \A LB \in DistinctLists({d \in 0..(ndim(T1) - 1) : ~In(d, L1)}) :
               \A A \in Tensors :
                 \A LA \in DistinctLists(0..(ndim(A) - 1)) :
                  ValidCall(A, T1, LA, LB)
                      => LET A_BC == tensordot(A, T, LA, Adjusted(LB, L1, 0))
                             AB   == tensordot(A, T1, LA, LB)
                             AB_C == tensordot(AB.T, T2,
                                         Adjusted(L1, LB, ndim(A) - Len(LA)), L2)
                         IN  /\ A_BC.ok /\ AB.ok /\ AB_C.ok
                             /\ A_BC.T = AB_C.T

\* B.C has been returned for two matrices, and a vector A contracted with
\* its first axis gives [6, 11]
C19_Witness ==
    /\ pc = "done"
    /\ T1 = Tensor(<<2, 2>>, arange) /\ T2 = Tensor(<<2, 2>>, arange)
    /\ L1 = <<1>> /\ L2 = <<0>>
    /\ T = [shape |-> <<2, 2>>, data |-> <<2, 3, 6, 11>>]
    /\ tensordot(Tensor(<<2>>, arange), T, <<0>>, <<0>>).T.data = <<6, 11>>

C21_InnerOuter ==
    (Terminal /\ IsPair /\ ArgL1 = <<0>> /\ ArgL2 = <<0>>
       /\ ndim(T1) = 1 /\ ndim(T2) = 2 /\ T1.shape[1] = T2.shape[1])
        => /\ pc = "done"
           /\ \A f \in Fills :
                LET m     == T2.shape[2]
                    y     == Tensor(<<m>>, f)
                    y_xM  == tensordot(y, T, <<0>>, <<0>>)
                    xy    == tensordot(T1, y, <<>>, <<>>)
                    xy_M  == tensordot(xy.T, T2, <<0, 1>>, <<0, 1>>)
                    sum   == SumSeq([p \in 1..Len(T2.data) |->
                                        T1.data[((p - 1) \div m) + 1] * T2.data[p]
                                          * y.data[((p - 1) % m) + 1]])
                IN  /\ y_xM.ok /\ xy.ok /\ xy_M.ok
                    /\ y_xM.T = [shape |-> <<>>, data |-> <<sum>>]
                    /\ xy_M.T = y_xM.T

\* x = [0,1] has been contracted with M = [[0,1],[2,3]], giving [2,3], whose
\* contraction with y = [1,1] is 5
C21_Witness ==
    /\ pc = "done" /\ ArgL1 = <<0>> /\ ArgL2 = <<0>>
    /\ T1 = Tensor(<<2>>, arange) /\ T2 = Tensor(<<2, 2>>, arange)
    /\ T = [shape |-> <<2>>, data |-> <<2, 3>>]
    /\ tensordot(Tensor(<<2>>, ones), T, <<0>>, <<0>>).T.data = <<5>>

\* C22: for matrices A (n,p), B (p,q), C (q,m), the outer product of A and C
\* contracted with B over ([1,2],[0,1]) is the (n,m) matrix A.B.C: entry
\* [i,l] is the sum over j, k of A[i,j] * B[j,k] * C[k,l].
C22_OuterABC ==
    (Terminal /\ IsPair /\ ArgL1 = <<1, 2>> /\ ArgL2 = <<0, 1>>)
        => \A A \in Matrices, C \in Matrices :
              (T1 = outer(A, C) /\ ndim(T2) = 2
                 /\ A.shape[2] = T2.shape[1] /\ T2.shape[2] = C.shape[1])
                  => /\ pc = "done"
                     /\ T = matdot(matdot(A, T2), C)

\* the cell's contraction has been returned for A = C = [[0,1],[2,3]] and
\* B all ones
C22_Witness ==
    /\ pc = "done" /\ ArgL1 = <<1, 2>> /\ ArgL2 = <<0, 1>>
    /\ T1 = outer(Tensor(<<2, 2>>, arange), Tensor(<<2, 2>>, arange))
    /\ T2 = Tensor(<<2, 2>>, ones)
    /\ T = [shape |-> <<2, 2>>, data |-> <<2, 4, 10, 20>>]

\* C23: when axes does not have exactly two elements (the default axes = ()
\* included) the call raises ValueError before computing anything.
C23_WrongLengthValueError ==
    (Terminal /\ axes.kind = "tuple" /\ Len(axes.elems) # 2)
        => (pc = "error" /\ err = "ValueError" /\ ~allocated /\ T = NoTensor)

\* C24: with a rank-0 T1 and any T2, tensordot(T1, T2, ([],[])) returns a
\* tensor of shape shape(T2) whose entry [j...] is T1 * T2[j...]; with both
\* operands of rank 0 the result has rank 0 and the loop body runs exactly
\* once.
C24_RankZero ==
    (Terminal /\ IsPair /\ ArgL1 = <<>> /\ ArgL2 = <<>> /\ ndim(T1) = 0)
        => /\ pc = "done"
           /\ T.shape = T2.shape
           /\ Len(T.data) = Len(T2.data)
           /\ \A j \in 1..Len(T2.data) : T.data[j] = T1.data[1] * T2.data[j]
           /\ ndim(T2) = 0 => (n = 1 /\ T.shape = <<>>)

\* the rank-0 tensor 1 has been multiplied into the matrix [[0,1],[2,3]]
C24_Witness ==
    /\ pc = "done" /\ L1 = <<>> /\ L2 = <<>>
    /\ T1 = Tensor(<<>>, ones) /\ T2 = Tensor(<<2, 2>>, arange)
    /\ T = [shape |-> <<2, 2>>, data |-> <<0, 1, 2, 3>>]
    /\ n = 4

\* index is the buffer of the operand A at a vecdot call: a full slice at
\* the positions L names, and at each static position dims[i] the integer
\* t[i] of the current output coordinate
BufferAt(index, A, L, dims, t) ==
    /\ Len(index) = ndim(A)
    /\ \A p \in 1..ndim(A) : (index[p] = SLICE) = In(p - 1, L)
    /\ \A i \in 1..Len(dims) : index[dims[i] + 1] = t[i]

\* C25: at every vecdot call T1_index holds a full slice at exactly the
\* positions listed in L1 and the integer t1[i] at each static position
\* T1_rdim[i], likewise T2_index with L2, T2_rdim and t2: nothing is left
\* over from an earlier iteration; and from their creation on, the contracted
\* positions of both buffers hold the full slice.
C25_IndexBuffers ==
    /\ pc = "store" => /\ BufferAt(T1_index, T1, L1, T1_rdim, t1)
                       /\ BufferAt(T2_index, T2, L2, T2_rdim, t2)
    /\ (pc \in {"loop", "store", "done"} \/ (pc = "error" /\ allocated))
          => /\ \A p \in 1..ndim(T1) : In(p - 1, L1) => T1_index[p] = SLICE
             /\ \A p \in 1..ndim(T2) : In(p - 1, L2) => T2_index[p] = SLICE

\* the vecdot call for entry [1,0] of a matrix product, after the call for
\* [0,1]: T2_index has gone from column 1 back to column 0
C25_Witness ==
    /\ pc = "store" /\ n = 3
    /\ T1.shape = <<2, 2>> /\ T2.shape = <<2, 2>>
    /\ L1 = <<1>> /\ L2 = <<0>>
    /\ t1 = <<1>> /\ t2 = <<0>>
    /\ T1_index = <<1, SLICE>> /\ T2_index = <<SLICE, 0>>

\* the call is inside the documented domain
ValidInput == IsPair /\ ValidCall(T1, T2, ArgL1, ArgL2)

\* C26: for every valid input the loop ends after exactly prod(output shape)
\* iterations and the call returns; the k-th iteration writes the k-th entry
\* of the output in row-major order (T1's static indices outer, T2's inner),
\* so every entry is written exactly once; when a static axis has size 0 the
\* body never runs and the empty tensor of the output shape is returned.
C26_LoopTerminates ==
    /\ [](ValidInput =>
            /\ pc = "store" =>
                 /\ n <= Prod(T.shape)
                 /\ T.shape = T1_rshape \o T2_rshape
                 /\ Offset(T.shape, t1 \o t2) = n - 1
            /\ pc = "done" =>
                 /\ n = Prod(T.shape)
                 /\ Len(T.data) = n
                 /\ T.shape = StaticSizes(T1, L1) \o StaticSizes(T2, L2)
                 /\ In(0, T.shape) => (n = 0 /\ T.data = <<>>))
    /\ ValidInput ~> (pc = "done")

\* a call with an empty static axis has returned without running the body
C26_Witness ==
    /\ pc = "done" /\ n = 0
    /\ T1.shape = <<2, 0>> /\ T2.shape = <<2, 2>>
    /\ L1 = <<0>> /\ L2 = <<1>>
    /\ T = [shape |-> <<0, 2>>, data |-> <<>>]

\* the lists that hold the entries of L in some order
Reorderings(L) ==
    {[i \in 1..Len(L) |-> L[f[i]]] : f \in Permutations(1..Len(L))}

\* C27: the call depends on L1 and L2 only as sets: for every reordering p
\* of L1 and every reordering q of L2, tensordot(T1, T2, (p, q)) ends as
\* tensordot(T1, T2, (L1, L2)) does, in the same tensor or in an error.
C27_ListsAsSets ==
    (Terminal /\ IsPair)
        => \A p \in Reorderings(ArgL1), q \in Reorderings(ArgL2) :
              LET other == tensordot(T1, T2, p, q)
              IN  /\ other.ok = (pc = "done")
                  /\ pc = "done" => other.T = T

\* the tensor-tensor cell has returned, and with both lists reversed it
\* returns the same tensor
C27_Witness ==
    /\ pc = "done"
    /\ T1 = Tensor(<<3, 2, 4>>, arange) /\ T2 = Tensor(<<2, 4, 2>>, ones)
    /\ ArgL1 = <<1, 2>> /\ ArgL2 = <<2, 1>>
    /\ tensordot(T1, T2, <<2, 1>>, <<2, 1>>).T = T
    /\ T.data[2] = 28

\* the lists are in the same relative order
SameOrder(LA, LB) ==
    \A i, j \in 1..Len(LA) : (LA[i] < LA[j]) = (LB[i] < LB[j])

\* C28: for every valid (L1, L2) whose lists are in the same relative order,
\* the implemented value, the dot product of the row-major flattenings of
\* the two contracted slices, is the sum that pairs axis L1[i] of T1 with
\* axis L2[i] of T2.
C28_FlattenedIsPaired ==
    (Terminal /\ ValidInput /\ SameOrder(ArgL1, ArgL2))
        => (pc = "done" /\ T = PairedTensor(T1, T2, ArgL1, ArgL2))

\* two different matrices have been contracted over both axes, both lists
\* in descending order
C28_Witness ==
    /\ pc = "done"
    /\ T1 = Tensor(<<2, 2>>, arange) /\ T2 = Tensor(<<2, 2>>, ones)
    /\ L1 = <<1, 0>> /\ L2 = <<1, 0>>
    /\ T = PairedTensor(T1, T2, L1, L2)
    /\ T.data = <<6>>

\* the number of elements of the contracted slice of A: the product of the
\* sizes of the axes of A that LA names
SliceElems(A, LA) == Prod(Pick(A.shape, {p \in 1..ndim(A) : In(p - 1, LA)}, 1))

\* the number of entries of the output
OutEntries(A, B, LA, LB) == Prod(StaticSizes(A, LA)) * Prod(StaticSizes(B, LB))

\* the output has at least one entry and the two contracted slices differ
\* in their number of elements
SlicesDiffer ==
    /\ OutEntries(T1, T2, ArgL1, ArgL2) >= 1
    /\ SliceElems(T1, ArgL1) # SliceElems(T2, ArgL2)

\* C29: given a pair of lists as axes, the call ends in an error exactly
\* when the output has at least one entry and the two contracted slices
\* differ in their number of elements; the error is raised in the first
\* loop iteration, after the output has been allocated and before any
\* entry has been written.
C29_ErrorIffSlicesDiffer ==
    IsPair =>
        /\ pc = "error" =>
              /\ SlicesDiffer
              /\ err = "ValueError"
              /\ allocated /\ n = 1
              /\ T = zeros(OutShape(T1, T2, T1_rdim, T2_rdim))
        /\ pc = "done" => ~SlicesDiffer
        /\ (SlicesDiffer /\ n >= 1) => pc \in {"store", "error"}

\* a call has failed in its first iteration: -1 names no axis of T1, so
\* the slice of T1 is one element against the two of T2
C29_Witness ==
    /\ pc = "error" /\ err = "ValueError"
    /\ T1.shape = <<2>> /\ T2.shape = <<2>>
    /\ L1 = <<-1>> /\ L2 = <<0>>
    /\ allocated /\ n = 1
    /\ T = zeros(<<2>>)

====
